---- MODULE Spec2Model ----
(***************************************************************************)
(* A model of the message-dispatch core of rrg: envelope decoding          *)
(* (comms/request.rs, session/mod.rs), the Action and Adhoc sessions, the  *)
(* sink, response and status encoding, execute and the handle entry point  *)
(* (session/mod.rs), and of io::copy_until (io.rs).                        *)
(*                                                                         *)
(* External collaborators are modelled at their boundary only:             *)
(*   - message::send is the transport; it appends to `sent`;               *)
(*   - action::dispatch is the action catalogue; it calls session.reply    *)
(*     and session.send any number of times and returns a Result;          *)
(*   - prost::Message::encode returns a Result; whether it succeeds is an  *)
(*     input (`enc`) of every operation that encodes;                      *)
(*   - the error! log macro has no effect on the program's state and is    *)
(*     not modelled.                                                       *)
(***************************************************************************)
EXTENDS Integers, Sequences, FiniteSets, TLC

VARIABLES
    pc,       \* pc[p]: where worker p is in handle: "idle" or "dispatch"
    demand,   \* demand[p]: the Demand worker p decoded (handle, line 31)
    session,  \* session[p]: the Action session of worker p (handle, line 39)
    cur,      \* cur[p]: the number of the handle call worker p is running
    sent,     \* what message::send received, in submission order
    calls,    \* history: one record per handle call made so far
    action,   \* a stand-alone Action session (None until created)
    last,     \* the most recent call made on a stand-alone session
    steps,    \* number of calls made on the stand-alone sessions, per
              \* method, and the number of Action::reply calls that
              \* returned Ok
    proto,    \* the envelope handed to the two decoders
    request,  \* what Request::try_from returned for proto (None before)
    decoded,  \* what Demand::try_from returned for proto (None before)
    reader,   \* copy_until: the reader, with how much of it has been read
    writer,   \* copy_until: the writer, with the bytes written to it
    pred,     \* copy_until: the predicate
    read,     \* copy_until: what the last reader.read(&mut buf) returned
    ret       \* copy_until: its return value (None while it runs)

vars == <<pc, demand, session, cur, sent, calls, action, last, steps,
          proto, request, decoded, reader, writer, pred, read, ret>>

handleVars  == <<pc, demand, session, cur, calls>>
sessionVars == <<action, last, steps>>
decodeVars  == <<proto, request, decoded>>
copyVars    == <<reader, writer, pred, read, ret>>

(***************************************************************************)
(* Bounds of the model.                                                    *)
(***************************************************************************)
MaxCalls == 2      \* handle calls in one run
MaxSent  == 2      \* envelopes submitted by reply/send in one run
MaxSteps == 4      \* calls on the stand-alone sessions in one run
MaxLen   == 3      \* bytes in the stream of a finite reader
MaxLimit == 2      \* largest limit of a predicate `writer.len() > limit`
MaxProduced == 4   \* bytes read from a never-ending reader in one run

\* io.rs line 9: the size of the buffer of copy_until, 8 * 1024 in the
\* source, scaled down so that a stream takes several chunks.
DEFAULT_BUF_SIZE == 2

Procs == {1, 2}    \* workers that may run handle concurrently

(***************************************************************************)
(* Option and Result values.                                               *)
(***************************************************************************)
None        == <<>>
Some(x)     == <<x>>
IsSome(o)   == Len(o) = 1
Unwrap(o)   == o[1]
Ok(v)       == [ok |-> TRUE, val |-> v]
Err(e)      == [ok |-> FALSE, err |-> e]
Unit        == "()"

(***************************************************************************)
(* Values the inputs are drawn from.                                       *)
(***************************************************************************)
SessionIds  == {"F:123", "F:456"}
RequestIds  == {7, 8}
Names       == {"ListDir", "GetFileStat"}
ArgBytes    == {<<>>, <<1, 2>>}

OptionOf(S) == {None} \cup {Some(x) : x \in S}

\* rrg_proto::GrrMessage: the fields of the wire envelope this code touches.
DefaultGrrMessage ==
    [session_id    |-> None,
     request_id    |-> None,
     response_id   |-> None,
     name          |-> None,
     type          |-> None,
     args_rdf_name |-> None,
     args          |-> None]

\* Every inbound envelope over the input values.
Protos ==
    {[DefaultGrrMessage EXCEPT !.session_id = s, !.request_id = r,
                               !.name = n, !.args = a] :
        s \in OptionOf(SessionIds), r \in OptionOf(RequestIds),
        n \in OptionOf(Names), a \in OptionOf(ArgBytes)}

\* action::Response values: a proto with the type's RDF_NAME.
Responses ==
    {[RDF_NAME |-> Some("StatEntry"), proto |-> "stat"],
     [RDF_NAME |-> None,              proto |-> "chunk"]}

\* The responses the dispatched actions produce.
DispatchResponses == {r \in Responses : r.proto = "stat"}

\* The headers a stand-alone Action session may be bound to.
Headers ==
    {[session_id |-> s, request_id |-> r] : s \in SessionIds, r \in RequestIds}

\* session::Error values an action may return.
Errors == {"Action", "Parse"}

(***************************************************************************)
(* Envelope decoding.                                                      *)
(***************************************************************************)

\* ParseError::MissingField(name), session/mod.rs lines 166-171.
MissingField(field) == [kind |-> "MissingField", field |-> field]

\* The mutant decodes the action name before the header.
DemandTryFrom_NameFirst(message) ==
    IF ~IsSome(message.name) THEN Err(MissingField("action name"))
    ELSE IF ~IsSome(message.session_id) THEN Err(MissingField("session id"))
    ELSE IF ~IsSome(message.request_id) THEN Err(MissingField("request id"))
    ELSE Ok([action  |-> Unwrap(message.name),
             header  |-> [session_id |-> Unwrap(message.session_id),
                          request_id |-> Unwrap(message.request_id)],
             payload |-> message.args])

\* The mutant fills a missing action name with the empty name.
DemandTryFrom_DefaultName(message) ==
    IF ~IsSome(message.session_id) THEN Err(MissingField("session id"))
    ELSE IF ~IsSome(message.request_id) THEN Err(MissingField("request id"))
    ELSE Ok([action  |-> IF IsSome(message.name)
                         THEN Unwrap(message.name) ELSE "",
             header  |-> [session_id |-> Unwrap(message.session_id),
                          request_id |-> Unwrap(message.request_id)],
             payload |-> message.args])

\* <Demand as TryFrom<GrrMessage>>::try_from: the header is built first
\* (session id, then request id), the action name is checked after it, and
\* the argument bytes are wrapped in a Payload without being looked at.
DemandTryFrom(message) ==
    IF ~IsSome(message.session_id) THEN Err(MissingField("session id"))
    ELSE IF ~IsSome(message.request_id) THEN Err(MissingField("request id"))
    ELSE IF ~IsSome(message.name) THEN Err(MissingField("action name"))
    ELSE Ok([action  |-> Unwrap(message.name),
             header  |-> [session_id |-> Unwrap(message.session_id),
                          request_id |-> Unwrap(message.request_id)],
             payload |-> message.args])

\* ParseRequestErrorKind, comms/request.rs lines 87-94.
NoSessionId  == "NoSessionId"
NoRequestId  == "NoRequestId"
NoActionName == "NoActionName"

\* From<ParseRequestErrorKind> for ParseRequestError.
ParseRequestError(kind) == [kind |-> kind]

\* The mutant treats absent arguments as an error of the request.
RequestTryFrom_ArgsRequired(p) ==
    IF ~IsSome(p.session_id) THEN Err(ParseRequestError(NoSessionId))
    ELSE IF ~IsSome(p.request_id) THEN Err(ParseRequestError(NoRequestId))
    ELSE IF ~IsSome(p.name) THEN Err(ParseRequestError(NoActionName))
    ELSE IF ~IsSome(p.args) THEN Err(ParseRequestError(NoActionName))
    ELSE Ok([id              |-> [session_id |-> Unwrap(p.session_id),
                                  request_id |-> Unwrap(p.request_id)],
             action          |-> Unwrap(p.name),
             serialized_args |-> p.args])

\* <Request as TryFrom<GrrMessage>>::try_from: has_session_id, has_request_id,
\* then the RequestId is taken, then has_name, then the optional args.
RequestTryFrom(p) ==
    IF ~IsSome(p.session_id) THEN Err(ParseRequestError(NoSessionId))
    ELSE IF ~IsSome(p.request_id) THEN Err(ParseRequestError(NoRequestId))
    ELSE IF ~IsSome(p.name) THEN Err(ParseRequestError(NoActionName))
    ELSE Ok([id              |-> [session_id |-> Unwrap(p.session_id),
                                  request_id |-> Unwrap(p.request_id)],
             action          |-> Unwrap(p.name),
             serialized_args |-> IF IsSome(p.args)
                                 THEN Some(Unwrap(p.args)) ELSE None])

(***************************************************************************)
(* Responses, sinks and sessions.                                          *)
(***************************************************************************)

\* prost::Message::encode into a fresh Vec: the bytes of one proto.
ProstEncode(p) == <<p>>

\* From<prost::EncodeError> for session::Error, applied by `?`.
EncodeError == "Encode"

\* The mutant tags a data response as a status.
ResponseTryInto_StatusTag(self, enc) ==
    IF ~enc THEN Err(EncodeError)
    ELSE Ok([DefaultGrrMessage EXCEPT
                !.session_id    = Some(self.session_id),
                !.response_id   = self.response_id,
                !.request_id    = self.request_id,
                !.type          = Some("STATUS"),
                !.args_rdf_name = self.data.RDF_NAME,
                !.args          = Some(ProstEncode(self.data.proto))])

\* <Response<R> as TryInto<GrrMessage>>::try_into.
ResponseTryInto(self, enc) ==
    IF ~enc THEN Err(EncodeError)
    ELSE Ok([DefaultGrrMessage EXCEPT
                !.session_id    = Some(self.session_id),
                !.response_id   = self.response_id,
                !.request_id    = self.request_id,
                !.type          = Some("MESSAGE"),
                !.args_rdf_name = self.data.RDF_NAME,
                !.args          = Some(ProstEncode(self.data.proto))])

\* Response::send: encode, and on success hand the envelope to message::send.
\* `out` is what the call submits to the transport.
ResponseSend(self, enc) ==
    LET message == ResponseTryInto(self, enc)
    IN  IF ~message.ok
        THEN [result |-> Err(message.err), out |-> <<>>]
        ELSE [result |-> Ok(Unit), out |-> <<message.val>>]

\* session::STARTUP and the sinks of the process.
STARTUP == [id |-> "/flows/F:Startup"]
Sinks   == {STARTUP}

\* Sink::wrap.
SinkWrap(self, response) ==
    [session_id  |-> self.id,
     request_id  |-> None,
     response_id |-> None,
     data        |-> response]

\* The unit struct Adhoc.
Adhoc == "Adhoc"

\* The mutant sends the response to the start-up sink instead of dropping it.
AdhocReply_Send(self, response) ==
    [self   |-> self,
     result |-> Ok(Unit),
     out    |-> ResponseSend(SinkWrap(STARTUP, response), TRUE).out]

\* <Adhoc as Session>::reply: log, drop the response, return Ok(()).
AdhocReply(self, response) ==
    [self |-> self, result |-> Ok(Unit), out |-> <<>>]

\* <Adhoc as Session>::send.
AdhocSend(self, sink, response, enc) ==
    LET r == ResponseSend(SinkWrap(sink, response), enc)
    IN  [self |-> self, result |-> r.result, out |-> r.out]

\* Action::new.
ActionNew(header) == [header |-> header, next_response_id |-> 0]

\* The mutant increments the counter before the response is built.
ActionReply_IncrementFirst(self, response, enc) ==
    LET r == ResponseSend(
                 [session_id  |-> self.header.session_id,
                  request_id  |-> Some(self.header.request_id),
                  response_id |-> Some(self.next_response_id + 1),
                  data        |-> response], enc)
    IN  IF ~r.result.ok
        THEN [self |-> self, result |-> r.result, out |-> r.out]
        ELSE [self   |-> [self EXCEPT !.next_response_id = @ + 1],
              result |-> Ok(Unit),
              out    |-> r.out]

\* The mutant counts a reply whose response failed to encode.
ActionReply_CountsFailure(self, response, enc) ==
    LET r == ResponseSend(
                 [session_id  |-> self.header.session_id,
                  request_id  |-> Some(self.header.request_id),
                  response_id |-> Some(self.next_response_id),
                  data        |-> response], enc)
    IN  [self   |-> [self EXCEPT !.next_response_id = @ + 1],
         result |-> r.result,
         out    |-> r.out]

\* <Action as Session>::reply: the response carries the bound header and the
\* current counter; the counter is incremented only after send returned Ok.
ActionReply(self, response, enc) ==
    LET r == ResponseSend(
                 [session_id  |-> self.header.session_id,
                  request_id  |-> Some(self.header.request_id),
                  response_id |-> Some(self.next_response_id),
                  data        |-> response], enc)
    IN  IF ~r.result.ok
        THEN [self |-> self, result |-> r.result, out |-> r.out]
        ELSE [self   |-> [self EXCEPT !.next_response_id = @ + 1],
              result |-> Ok(Unit),
              out    |-> r.out]

\* The mutant addresses a sink response like a reply.
ActionSend_AsReply(self, sink, response, enc) ==
    LET r == ResponseSend(
                 [session_id  |-> sink.id,
                  request_id  |-> Some(self.header.request_id),
                  response_id |-> Some(self.next_response_id),
                  data        |-> response], enc)
    IN  [self |-> self, result |-> r.result, out |-> r.out]

\* The mutant advances the reply counter on a successful send.
ActionSend_Counts(self, sink, response, enc) ==
    LET r == ResponseSend(SinkWrap(sink, response), enc)
    IN  [self   |-> IF r.result.ok
                    THEN [self EXCEPT !.next_response_id = @ + 1]
                    ELSE self,
         result |-> r.result,
         out    |-> r.out]

\* <Action as Session>::send.
ActionSend(self, sink, response, enc) ==
    LET r == ResponseSend(SinkWrap(sink, response), enc)
    IN  [self |-> self, result |-> r.result, out |-> r.out]

(***************************************************************************)
(* The status of a request.                                                *)
(***************************************************************************)

\* Display of session::Error (session/error.rs): one message per error.
ErrorToString(e) ==
    CASE e = "Action" -> "action error"
      [] e = "Parse"  -> "malformed proto message"
      [] e = EncodeError -> "failure during encoding proto message"

\* rrg_proto::GrrStatus: the fields this code sets.
DefaultGrrStatus == [status |-> None, error_message |-> None]

\* The mutant reports a failure without its message.
GrrStatusOf_NoMessage(result) ==
    IF result.ok
    THEN [DefaultGrrStatus EXCEPT !.status = Some("OK")]
    ELSE [DefaultGrrStatus EXCEPT !.status = Some("GENERIC_ERROR")]

\* The match of Status::try_into, lines 252-262.
GrrStatusOf(result) ==
    IF result.ok
    THEN [DefaultGrrStatus EXCEPT !.status = Some("OK")]
    ELSE [DefaultGrrStatus EXCEPT
             !.status        = Some("GENERIC_ERROR"),
             !.error_message = Some(ErrorToString(result.err))]

\* <Status as TryInto<GrrMessage>>::try_into. The envelope is built from the
\* default one: session_id, response_id, type, args_rdf_name and args are
\* set, and response_id is set from the header's request_id (line 269);
\* request_id is not set.
StatusTryInto(self, enc) ==
    IF ~enc THEN Err(EncodeError)
    ELSE Ok([DefaultGrrMessage EXCEPT
                !.session_id    = Some(self.header.session_id),
                !.response_id   = Some(self.header.request_id),
                !.type          = Some("STATUS"),
                !.args_rdf_name = Some("GrrStatus"),
                !.args          = Some(ProstEncode(GrrStatusOf(self.result)))])

(***************************************************************************)
(* handle: one call per inbound message, run by a worker.                  *)
(***************************************************************************)

\* The envelopes the workers receive: two decodable ones with different
\* headers (one without and one with argument bytes) and one for each
\* missing mandatory field.
Envelope(s, r, n, a) ==
    [DefaultGrrMessage EXCEPT !.session_id = s, !.request_id = r,
                              !.name = n, !.args = a]

Inbound ==
    {Envelope(Some("F:123"), Some(7), Some("ListDir"), None),
     Envelope(Some("F:456"), Some(8), Some("ListDir"), Some(<<1, 2>>)),
     Envelope(None,          Some(7), Some("ListDir"), None),
     Envelope(Some("F:123"), None,    Some("ListDir"), None),
     Envelope(Some("F:123"), Some(7), None,            None)}

\* The results action::dispatch may return.
Results == {Ok(Unit)} \cup {Err(e) : e \in Errors}

\* One entry of the transport's log: the envelope, and who submitted it.
\* `arg` is what the caller passed: the response of a reply, the sink and
\* the response of a send, the dispatch result of a status.
Entry(message, call, by, op, arg) ==
    [message |-> message, call |-> call, by |-> by, op |-> op, arg |-> arg]

Submit(out, call, by, op, arg) ==
    [i \in 1..Len(out) |-> Entry(out[i], call, by, op, arg)]

\* One record of the history of handle calls.
Call(p, message, outcome) ==
    [proc |-> p, message |-> message, outcome |-> outcome]

\* The mutant reports an undecodable message that still has its header to
\* the server with an error status.
HandleDecode_Report(p, message) ==
    /\ pc[p] = "idle"
    /\ Len(calls) < MaxCalls
    /\ LET d == DemandTryFrom(message)
       IN  IF ~d.ok
           THEN /\ calls' = Append(calls, Call(p, message, "dropped"))
                /\ sent' =
                      IF IsSome(message.session_id) /\ IsSome(message.request_id)
                      THEN sent \o Submit(
                               <<StatusTryInto(
                                    [header |-> [session_id |->
                                                    Unwrap(message.session_id),
                                                 request_id |->
                                                    Unwrap(message.request_id)],
                                     result |-> Err("Parse")], TRUE).val>>,
                               Len(calls) + 1, "handle", "status",
                               <<Err("Parse")>>)
                      ELSE sent
                /\ UNCHANGED <<pc, demand, session, cur>>
           ELSE /\ calls' = Append(calls, Call(p, message, "dispatching"))
                /\ cur' = [cur EXCEPT ![p] = Len(calls) + 1]
                /\ demand' = [demand EXCEPT ![p] = Some(d.val)]
                /\ session' = [session EXCEPT
                                  ![p] = Some(ActionNew(d.val.header))]
                /\ pc' = [pc EXCEPT ![p] = "dispatch"]
                /\ UNCHANGED sent
    /\ UNCHANGED <<sessionVars, decodeVars, copyVars>>

\* handle, lines 31-39: decode the message; on failure return, otherwise
\* create the Action session from a clone of the demand's header.
HandleDecode(p, message) ==
    /\ pc[p] = "idle"
    /\ Len(calls) < MaxCalls
    /\ LET d == DemandTryFrom(message)
       IN  IF ~d.ok
           THEN /\ calls' = Append(calls, Call(p, message, "dropped"))
                /\ UNCHANGED <<pc, demand, session, cur, sent>>
           ELSE /\ calls' = Append(calls, Call(p, message, "dispatching"))
                /\ cur' = [cur EXCEPT ![p] = Len(calls) + 1]
                /\ demand' = [demand EXCEPT ![p] = Some(d.val)]
                /\ session' = [session EXCEPT
                                  ![p] = Some(ActionNew(d.val.header))]
                /\ pc' = [pc EXCEPT ![p] = "dispatch"]
                /\ UNCHANGED sent
    /\ UNCHANGED <<sessionVars, decodeVars, copyVars>>

\* The mutant numbers replies from one counter shared by all requests.
DispatchReply_SharedCounter(p, response, enc) ==
    /\ pc[p] = "dispatch"
    /\ Len(sent) < MaxSent
    /\ LET shared == Len(SelectSeq(sent, LAMBDA e : e.op = "reply"))
           r == ActionReply([Unwrap(session[p]) EXCEPT
                                !.next_response_id = shared],
                            response, enc)
       IN  /\ session' = [session EXCEPT ![p] = Some(r.self)]
           /\ sent' = sent \o Submit(r.out, cur[p], "Action", "reply",
                                     <<response>>)
    /\ UNCHANGED <<pc, demand, cur, calls, sessionVars, decodeVars, copyVars>>

\* action::dispatch calls session.reply on the session handle gave it.
DispatchReply(p, response, enc) ==
    /\ pc[p] = "dispatch"
    /\ Len(sent) < MaxSent
    /\ LET r == ActionReply(Unwrap(session[p]), response, enc)
       IN  /\ session' = [session EXCEPT ![p] = Some(r.self)]
           /\ sent' = sent \o Submit(r.out, cur[p], "Action", "reply",
                                     <<response>>)
    /\ UNCHANGED <<pc, demand, cur, calls, sessionVars, decodeVars, copyVars>>

\* action::dispatch calls session.send on the session handle gave it.
DispatchSend(p, sink, response, enc) ==
    /\ pc[p] = "dispatch"
    /\ Len(sent) < MaxSent
    /\ LET r == ActionSend(Unwrap(session[p]), sink, response, enc)
       IN  /\ session' = [session EXCEPT ![p] = Some(r.self)]
           /\ sent' = sent \o Submit(r.out, cur[p], "Action", "send",
                                     <<sink, response>>)
    /\ UNCHANGED <<pc, demand, cur, calls, sessionVars, decodeVars, copyVars>>

\* The mutant submits the status while the action is still running.
HandleStatus_Early(p, result, enc) ==
    /\ pc[p] = "dispatch"
    /\ LET status  == [header |-> Unwrap(demand[p]).header, result |-> result]
           message == StatusTryInto(status, enc)
       IN  IF ~message.ok
           THEN /\ calls' = [calls EXCEPT
                                ![cur[p]].outcome = "encode_failed"]
                /\ pc' = [pc EXCEPT ![p] = "idle"]
                /\ demand' = [demand EXCEPT ![p] = None]
                /\ session' = [session EXCEPT ![p] = None]
                /\ UNCHANGED sent
           ELSE /\ calls' = [calls EXCEPT
                                ![cur[p]].outcome = "status_sent"]
                /\ sent' = sent \o Submit(<<message.val>>, cur[p], "handle",
                                          "status", <<result>>)
                /\ UNCHANGED <<pc, demand, session>>
    /\ UNCHANGED <<cur, sessionVars, decodeVars, copyVars>>

\* The mutant reports a status that failed to encode with a second status.
HandleStatus_Retry(p, result, enc) ==
    /\ pc[p] = "dispatch"
    /\ LET header  == Unwrap(demand[p]).header
           message == StatusTryInto([header |-> header, result |-> result],
                                    enc)
           again   == StatusTryInto([header |-> header,
                                     result |-> Err(EncodeError)], TRUE)
       IN  IF ~message.ok
           THEN /\ calls' = [calls EXCEPT
                                ![cur[p]].outcome = "encode_failed"]
                /\ sent' = sent \o Submit(<<again.val>>, cur[p], "handle",
                                          "status", <<Err(EncodeError)>>)
           ELSE /\ calls' = [calls EXCEPT
                                ![cur[p]].outcome = "status_sent"]
                /\ sent' = sent \o Submit(<<message.val>>, cur[p], "handle",
                                          "status", <<result>>)
    /\ pc' = [pc EXCEPT ![p] = "idle"]
    /\ demand' = [demand EXCEPT ![p] = None]
    /\ session' = [session EXCEPT ![p] = None]
    /\ UNCHANGED <<cur, sessionVars, decodeVars, copyVars>>

\* The mutant sends no status when the action failed.
HandleStatus_SilentError(p, result, enc) ==
    /\ pc[p] = "dispatch"
    /\ LET status  == [header |-> Unwrap(demand[p]).header, result |-> result]
           message == StatusTryInto(status, enc)
       IN  IF ~message.ok
           THEN /\ calls' = [calls EXCEPT
                                ![cur[p]].outcome = "encode_failed"]
                /\ UNCHANGED sent
           ELSE /\ calls' = [calls EXCEPT
                                ![cur[p]].outcome = "status_sent"]
                /\ sent' = IF result.ok
                           THEN sent \o Submit(<<message.val>>, cur[p],
                                               "handle", "status", <<result>>)
                           ELSE sent
    /\ pc' = [pc EXCEPT ![p] = "idle"]
    /\ demand' = [demand EXCEPT ![p] = None]
    /\ session' = [session EXCEPT ![p] = None]
    /\ UNCHANGED <<cur, sessionVars, decodeVars, copyVars>>

\* handle, lines 40-58: action::dispatch returns `result`; the Status is
\* built from the demand's header and the result and encoded; if encoding
\* fails handle returns, otherwise the envelope goes to message::send.
HandleStatus(p, result, enc) ==
    /\ pc[p] = "dispatch"
    /\ LET status  == [header |-> Unwrap(demand[p]).header, result |-> result]
           message == StatusTryInto(status, enc)
       IN  IF ~message.ok
           THEN /\ calls' = [calls EXCEPT
                                ![cur[p]].outcome = "encode_failed"]
                /\ UNCHANGED sent
           ELSE /\ calls' = [calls EXCEPT
                                ![cur[p]].outcome = "status_sent"]
                /\ sent' = sent \o Submit(<<message.val>>, cur[p], "handle",
                                          "status", <<result>>)
    /\ pc' = [pc EXCEPT ![p] = "idle"]
    /\ demand' = [demand EXCEPT ![p] = None]
    /\ session' = [session EXCEPT ![p] = None]
    /\ UNCHANGED <<cur, sessionVars, decodeVars, copyVars>>

\* copy_until has not been called.
CopyIdle ==
    /\ reader = None
    /\ writer = None
    /\ pred = None
    /\ read = None
    /\ ret = None

\* No call has been made on the stand-alone sessions.
NoSteps ==
    [ActionReply |-> 0, ActionReplyOk |-> 0, ActionSend |-> 0,
     AdhocReply |-> 0, AdhocSend |-> 0]

Init ==
    /\ pc = [p \in Procs |-> "idle"]
    /\ demand = [p \in Procs |-> None]
    /\ session = [p \in Procs |-> None]
    /\ cur = [p \in Procs |-> 0]
    /\ sent = <<>>
    /\ calls = <<>>
    /\ action = None
    /\ last = None
    /\ steps = NoSteps
    /\ proto = None
    /\ request = None
    /\ decoded = None
    /\ CopyIdle

Next ==
    \/ \E p \in Procs, message \in Inbound : HandleDecode(p, message)
    \/ \E p \in Procs, response \in DispatchResponses, enc \in BOOLEAN :
           DispatchReply(p, response, enc)
    \/ \E p \in Procs, sink \in Sinks, response \in DispatchResponses,
          enc \in BOOLEAN : DispatchSend(p, sink, response, enc)
    \/ \E p \in Procs, result \in Results, enc \in BOOLEAN :
           HandleStatus(p, result, enc)

Spec == Init /\ [][Next]_vars

(***************************************************************************)
(* The sessions on their own: an Action session created by Action::new     *)
(* and the Adhoc session, called in any order.                             *)
(***************************************************************************)

TotalSteps ==
    steps.ActionReply + steps.ActionSend + steps.AdhocReply + steps.AdhocSend

\* What `last` records of a call: the session, the method and what it
\* returned.
Returned(by, op, result) == [by |-> by, op |-> op, result |-> result]

CallActionReply(response, enc) ==
    /\ TotalSteps < MaxSteps
    /\ LET r == ActionReply(Unwrap(action), response, enc)
       IN  /\ action' = Some(r.self)
           /\ sent' = sent \o Submit(r.out, 0, "Action", "reply", <<response>>)
           /\ last' = Some(Returned("Action", "reply", r.result))
           /\ steps' = [steps EXCEPT
                           !.ActionReply   = @ + 1,
                           !.ActionReplyOk = IF r.result.ok THEN @ + 1 ELSE @]
    /\ UNCHANGED <<handleVars, decodeVars, copyVars>>

CallActionSend(sink, response, enc) ==
    /\ TotalSteps < MaxSteps
    /\ LET r == ActionSend(Unwrap(action), sink, response, enc)
       IN  /\ action' = Some(r.self)
           /\ sent' = sent \o Submit(r.out, 0, "Action", "send",
                                     <<sink, response>>)
           /\ last' = Some(Returned("Action", "send", r.result))
    /\ steps' = [steps EXCEPT !.ActionSend = @ + 1]
    /\ UNCHANGED <<handleVars, decodeVars, copyVars>>

CallAdhocReply(response) ==
    /\ TotalSteps < MaxSteps
    /\ LET r == AdhocReply(Adhoc, response)
       IN  /\ sent' = sent \o Submit(r.out, 0, "Adhoc", "reply", <<response>>)
           /\ last' = Some(Returned("Adhoc", "reply", r.result))
    /\ steps' = [steps EXCEPT !.AdhocReply = @ + 1]
    /\ UNCHANGED <<action, handleVars, decodeVars, copyVars>>

CallAdhocSend(sink, response, enc) ==
    /\ TotalSteps < MaxSteps
    /\ LET r == AdhocSend(Adhoc, sink, response, enc)
       IN  /\ sent' = sent \o Submit(r.out, 0, "Adhoc", "send",
                                     <<sink, response>>)
           /\ last' = Some(Returned("Adhoc", "send", r.result))
    /\ steps' = [steps EXCEPT !.AdhocSend = @ + 1]
    /\ UNCHANGED <<action, handleVars, decodeVars, copyVars>>

SessionInit ==
    /\ pc = [p \in Procs |-> "idle"]
    /\ demand = [p \in Procs |-> None]
    /\ session = [p \in Procs |-> None]
    /\ cur = [p \in Procs |-> 0]
    /\ sent = <<>>
    /\ calls = <<>>
    /\ action \in {Some(ActionNew(header)) : header \in Headers}
    /\ last = None
    /\ steps = NoSteps
    /\ proto = None
    /\ request = None
    /\ decoded = None
    /\ CopyIdle

SessionNext ==
    \/ \E response \in Responses, enc \in BOOLEAN :
           CallActionReply(response, enc)
    \/ \E sink \in Sinks, response \in Responses, enc \in BOOLEAN :
           CallActionSend(sink, response, enc)
    \/ \E response \in Responses : CallAdhocReply(response)
    \/ \E sink \in Sinks, response \in Responses, enc \in BOOLEAN :
           CallAdhocSend(sink, response, enc)

SessionSpec == SessionInit /\ [][SessionNext]_vars

(***************************************************************************)
(* The two decoders applied to one envelope.                               *)
(***************************************************************************)

ApplyRequestTryFrom ==
    /\ ~IsSome(request)
    /\ request' = Some(RequestTryFrom(Unwrap(proto)))
    /\ UNCHANGED <<proto, decoded, handleVars, sent, sessionVars, copyVars>>

ApplyDemandTryFrom ==
    /\ ~IsSome(decoded)
    /\ decoded' = Some(DemandTryFrom(Unwrap(proto)))
    /\ UNCHANGED <<proto, request, handleVars, sent, sessionVars, copyVars>>

DecodeInit ==
    /\ pc = [p \in Procs |-> "idle"]
    /\ demand = [p \in Procs |-> None]
    /\ session = [p \in Procs |-> None]
    /\ cur = [p \in Procs |-> 0]
    /\ sent = <<>>
    /\ calls = <<>>
    /\ action = None
    /\ last = None
    /\ steps = NoSteps
    /\ proto \in {Some(p) : p \in Protos}
    /\ request = None
    /\ decoded = None
    /\ CopyIdle

DecodeNext == ApplyRequestTryFrom \/ ApplyDemandTryFrom

DecodeSpec == DecodeInit /\ [][DecodeNext]_vars

(***************************************************************************)
(* execute: the typed parse of the payload, then the handler.              *)
(***************************************************************************)

\* Argument bytes on the wire: one varint field (field 1 = 1), and a lone
\* byte with the continuation bit set, which no protobuf message starts with.
ValidArgs     == <<8, 1>>
MalformedArgs == <<255>>

\* The payloads of the requests that are executed: no bytes, bytes that
\* decode, bytes that do not.
Payloads == {None, Some(ValidArgs), Some(MalformedArgs)}

\* The proto message with no field set: Default::default().
DefaultProto == {}

\* prost::Message::decode on messages of one-byte varint fields: the bytes
\* are (key, value) pairs, a key is field number * 8 + wire type 0 with a
\* field number of at least 1, and no byte has the continuation bit set.
\* The empty byte string decodes to the default message.
ProstDecode(bytes) ==
    LET keys   == {i \in 1..Len(bytes) : i % 2 = 1}
        wellformed ==
            /\ Len(bytes) % 2 = 0
            /\ \A i \in 1..Len(bytes) : bytes[i] < 128
            /\ \A i \in keys : bytes[i] % 8 = 0 /\ bytes[i] \div 8 >= 1
    IN  IF wellformed
        THEN Ok({<<bytes[i] \div 8, bytes[i + 1]>> : i \in keys})
        ELSE Err("Decode")

\* R::from_proto: the typed request built from the proto message.
FromProto(p) == [request |-> p]

\* Payload::parse: decode the bytes if there are any, take the default
\* message otherwise, and convert the message into the typed request.
PayloadParse(self) ==
    IF IsSome(self)
    THEN LET p == ProstDecode(Unwrap(self))
         IN  IF ~p.ok THEN Err("Malformed") ELSE Ok(FromProto(p.val))
    ELSE Ok(FromProto(DefaultProto))

\* One call a handler makes on its session.
Reply(response, enc)      == [op |-> "reply", response |-> response, enc |-> enc]
Send(sink, response, enc) ==
    [op |-> "send", sink |-> sink, response |-> response, enc |-> enc]

\* The sequences of session calls the handlers make: none, one call, and
\* two calls of which the first or the second may fail to encode.
HandlerCalls ==
    LET r == CHOOSE x \in DispatchResponses : TRUE
    IN  {<<>>,
         <<Reply(r, TRUE)>>,
         <<Reply(r, FALSE)>>,
         <<Send(STARTUP, r, FALSE)>>,
         <<Reply(r, TRUE), Reply(r, FALSE)>>,
         <<Reply(r, TRUE), Send(STARTUP, r, TRUE)>>,
         <<Reply(r, FALSE), Reply(r, TRUE)>>}

\* The handlers given to execute: session calls, then a result. A handler
\* with `propagate` returns the error of the first session call that fails
\* (the `?` idiom) without making the later calls; one without it ignores
\* what the session calls return.
Handlers ==
    [ops : HandlerCalls,
     propagate : BOOLEAN,
     result : {Ok(Unit), Err("Action")}]

\* The session calls of a handler run on `self`, in order. `out` is what
\* they submit, `error` the error of the session call that stopped them.
RECURSIVE RunCalls(_, _, _)
RunCalls(self, ops, propagate) ==
    IF ops = <<>>
    THEN [self |-> self, out |-> <<>>, error |-> None]
    ELSE LET o == Head(ops)
             r == IF o.op = "reply"
                  THEN ActionReply(self, o.response, o.enc)
                  ELSE ActionSend(self, o.sink, o.response, o.enc)
             arg == IF o.op = "reply"
                    THEN <<o.response>> ELSE <<o.sink, o.response>>
             out == [i \in 1..Len(r.out) |->
                        [message |-> r.out[i], op |-> o.op, arg |-> arg]]
         IN  IF ~r.result.ok /\ propagate
             THEN [self |-> r.self, out |-> out, error |-> Some(r.result.err)]
             ELSE LET rest == RunCalls(r.self, Tail(ops), propagate)
                  IN  [self  |-> rest.self,
                       out   |-> out \o rest.out,
                       error |-> rest.error]

\* The handler called with the session and the typed request.
RunHandler(self, handler, args) ==
    LET r == RunCalls(self, handler.ops, handler.propagate)
    IN  [self    |-> r.self,
         result  |-> IF IsSome(r.error)
                     THEN Err(Unwrap(r.error)) ELSE handler.result,
         out     |-> r.out,
         invoked |-> TRUE,
         args    |-> Some(args)]

\* The mutant runs the handler on the default request when the payload does
\* not parse.
Execute_DefaultOnError(self, handler, payload) ==
    LET args == PayloadParse(payload)
    IN  IF ~args.ok
        THEN RunHandler(self, handler, FromProto(DefaultProto))
        ELSE RunHandler(self, handler, args.val)

\* execute: handler(session, payload.parse()?). The parse error becomes a
\* session::Error through `?`.
Execute(self, handler, payload) ==
    LET args == PayloadParse(payload)
    IN  IF ~args.ok
        THEN [self    |-> self,
              result  |-> Err("Parse"),
              out     |-> <<>>,
              invoked |-> FALSE,
              args    |-> None]
        ELSE RunHandler(self, handler, args.val)

\* action::dispatch (action.rs): the action named by the demand is run by
\* execute on the session and the payload of the demand.
Dispatch(name, self, payload, handler) == Execute(self, handler, payload)

\* The envelopes of the executed requests: one header, each payload, and
\* one envelope without a request id.
ExecuteInbound ==
    {Envelope(Some("F:123"), Some(7), Some("ListDir"), a) : a \in Payloads}
        \cup {Envelope(Some("F:123"), None, Some("ListDir"), None)}

\* What `last` records of a handle call that ran to its end.
Executed(c, message, handler, enc, e) ==
    [by |-> "Action", op |-> "execute", call |-> c, message |-> message,
     handler |-> handler, enc |-> enc, result |-> e.result,
     invoked |-> e.invoked, args |-> e.args, session |-> e.self]

\* The mutant sends no status when the action returns an encode error.
HandleExecute_SilentOnEncodeError(message, handler, enc) ==
    /\ Len(calls) < MaxCalls
    /\ LET d == DemandTryFrom(message)
           c == Len(calls) + 1
       IN  IF ~d.ok
           THEN /\ calls' = Append(calls, Call(0, message, "dropped"))
                /\ UNCHANGED <<sent, last>>
           ELSE LET e == Dispatch(d.val.action, ActionNew(d.val.header),
                                  d.val.payload, handler)
                    status == [header |-> d.val.header, result |-> e.result]
                    m == StatusTryInto(status, enc)
                    responses ==
                        [i \in 1..Len(e.out) |->
                            Entry(e.out[i].message, c, "Action", e.out[i].op,
                                  e.out[i].arg)]
                IN  /\ last' = Some(Executed(c, message, handler, enc, e))
                    /\ IF ~m.ok \/ e.result = Err(EncodeError)
                       THEN /\ calls' = Append(calls,
                                   Call(0, message, "encode_failed"))
                            /\ sent' = sent \o responses
                       ELSE /\ calls' = Append(calls,
                                   Call(0, message, "status_sent"))
                            /\ sent' = sent \o responses
                                  \o Submit(<<m.val>>, c, "handle", "status",
                                            <<e.result>>)
    /\ UNCHANGED <<pc, demand, session, cur, action, steps, decodeVars, copyVars>>

\* handle run from its first line to its last, with the action of the
\* demand run by execute on `handler`: decode (lines 31-37), Action::new
\* (39), dispatch (40), Status and its encoding (42-56), message::send (58).
HandleExecute(message, handler, enc) ==
    /\ Len(calls) < MaxCalls
    /\ LET d == DemandTryFrom(message)
           c == Len(calls) + 1
       IN  IF ~d.ok
           THEN /\ calls' = Append(calls, Call(0, message, "dropped"))
                /\ UNCHANGED <<sent, last>>
           ELSE LET e == Dispatch(d.val.action, ActionNew(d.val.header),
                                  d.val.payload, handler)
                    status == [header |-> d.val.header, result |-> e.result]
                    m == StatusTryInto(status, enc)
                    responses ==
                        [i \in 1..Len(e.out) |->
                            Entry(e.out[i].message, c, "Action", e.out[i].op,
                                  e.out[i].arg)]
                IN  /\ last' = Some(Executed(c, message, handler, enc, e))
                    /\ IF ~m.ok
                       THEN /\ calls' = Append(calls,
                                   Call(0, message, "encode_failed"))
                            /\ sent' = sent \o responses
                       ELSE /\ calls' = Append(calls,
                                   Call(0, message, "status_sent"))
                            /\ sent' = sent \o responses
                                  \o Submit(<<m.val>>, c, "handle", "status",
                                            <<e.result>>)
    /\ UNCHANGED <<pc, demand, session, cur, action, steps, decodeVars, copyVars>>

ExecuteNext ==
    \E message \in ExecuteInbound, handler \in Handlers, enc \in BOOLEAN :
        HandleExecute(message, handler, enc)

ExecuteSpec == Init /\ [][ExecuteNext]_vars

(***************************************************************************)
(* io::copy_until.                                                         *)
(***************************************************************************)

Bytes == {0, 7}

\* The byte strings of a finite reader, up to MaxLen bytes.
Streams == UNION {[1..n -> Bytes] : n \in 0..MaxLen}

\* The readers: a finite one over `data` (like &[u8]) and one that never
\* ends and yields zeros (like the Null reader of the tests). `pos` is the
\* number of bytes read so far; a faulty reader may return errors.
Readers ==
    [kind : {"slice"}, data : Streams, pos : {0}, faulty : BOOLEAN]
        \cup [kind : {"null"}, data : {<<>>}, pos : {0}, faulty : BOOLEAN]

\* The writers: a growing byte vector; a faulty one may fail a write.
Writers == [buf : {<<>>}, faulty : BOOLEAN]

\* The predicates: `|_, _| false` and `|_, writer| writer.len() > limit`.
Preds ==
    {[kind |-> "never", limit |-> 0]}
        \cup {[kind |-> "longer", limit |-> n] : n \in 0..MaxLimit}

\* pred(reader, writer).
Pred(p, r, w) == p.kind = "longer" /\ Len(w.buf) > p.limit

\* std::io::ErrorKind::Interrupted and any other error of the reader, and
\* the error of a failed write_all.
Interrupted == "Interrupted"
ReadError   == "ReadError"
WriteError  == "WriteError"

Min(a, b) == IF a < b THEN a ELSE b

\* The most bytes one read can return: the buffer's size, or what is left
\* of a finite reader.
Available(r) ==
    IF r.kind = "null" THEN DEFAULT_BUF_SIZE
    ELSE Min(DEFAULT_BUF_SIZE, Len(r.data) - r.pos)

\* The next n bytes of the reader.
Chunk(r, n) ==
    IF r.kind = "null" THEN [i \in 1..n |-> 0]
    ELSE SubSeq(r.data, r.pos + 1, r.pos + n)

\* The mutant tests the predicate before the chunk is written.
CopyChunk_TestFirst(n, fail, k) ==
    /\ IsSome(reader) /\ ~IsSome(ret)
    /\ Unwrap(reader).kind = "null" => Unwrap(reader).pos < MaxProduced
    /\ n \in 1..Available(Unwrap(reader))
    /\ k \in 0..(n - 1)
    /\ fail => Unwrap(writer).faulty
    /\ ~fail => k = 0
    /\ LET r     == Unwrap(reader)
           w     == Unwrap(writer)
           chunk == Chunk(r, n)
           r2    == [r EXCEPT !.pos = @ + n]
           w2    == [w EXCEPT !.buf = @ \o chunk]
       IN  /\ reader' = Some(r2)
           /\ read' = Some(Ok(n))
           /\ IF fail
              THEN /\ writer' = Some([w EXCEPT !.buf = @ \o SubSeq(chunk, 1, k)])
                   /\ ret' = Some(Err(WriteError))
              ELSE /\ writer' = Some(w2)
                   /\ ret' = IF Pred(Unwrap(pred), r, w)
                             THEN Some(Ok(Unit)) ELSE None
    /\ UNCHANGED <<pred, handleVars, sent, sessionVars, decodeVars>>

\* The mutant writes the whole buffer instead of the bytes just read.
CopyChunk_WholeBuffer(n, fail, k) ==
    /\ IsSome(reader) /\ ~IsSome(ret)
    /\ Unwrap(reader).kind = "null" => Unwrap(reader).pos < MaxProduced
    /\ n \in 1..Available(Unwrap(reader))
    /\ k \in 0..(n - 1)
    /\ fail => Unwrap(writer).faulty
    /\ ~fail => k = 0
    /\ LET r     == Unwrap(reader)
           w     == Unwrap(writer)
           chunk == Chunk(r, n)
           buf   == chunk \o [i \in 1..(DEFAULT_BUF_SIZE - n) |-> 0]
           r2    == [r EXCEPT !.pos = @ + n]
           w2    == [w EXCEPT !.buf = @ \o buf]
       IN  /\ reader' = Some(r2)
           /\ read' = Some(Ok(n))
           /\ IF fail
              THEN /\ writer' = Some([w EXCEPT !.buf = @ \o SubSeq(chunk, 1, k)])
                   /\ ret' = Some(Err(WriteError))
              ELSE /\ writer' = Some(w2)
                   /\ ret' = IF Pred(Unwrap(pred), r2, w2)
                             THEN Some(Ok(Unit)) ELSE None
    /\ UNCHANGED <<pred, handleVars, sent, sessionVars, decodeVars>>

\* One turn of the loop in which read returns Ok(len) with len > 0 (lines
\* 19-20): write_all(&buf[..len]) (line 29), which on a faulty writer may
\* fail after k bytes and make copy_until return the error; then the
\* predicate is tested on the reader and the writer (lines 30-32).
CopyChunk(n, fail, k) ==
    /\ IsSome(reader) /\ ~IsSome(ret)
    /\ Unwrap(reader).kind = "null" => Unwrap(reader).pos < MaxProduced
    /\ n \in 1..Available(Unwrap(reader))
    /\ k \in 0..(n - 1)
    /\ fail => Unwrap(writer).faulty
    /\ ~fail => k = 0
    /\ LET r     == Unwrap(reader)
           w     == Unwrap(writer)
           chunk == Chunk(r, n)
           r2    == [r EXCEPT !.pos = @ + n]
           w2    == [w EXCEPT !.buf = @ \o chunk]
       IN  /\ reader' = Some(r2)
           /\ read' = Some(Ok(n))
           /\ IF fail
              THEN /\ writer' = Some([w EXCEPT !.buf = @ \o SubSeq(chunk, 1, k)])
                   /\ ret' = Some(Err(WriteError))
              ELSE /\ writer' = Some(w2)
                   /\ ret' = IF Pred(Unwrap(pred), r2, w2)
                             THEN Some(Ok(Unit)) ELSE None
    /\ UNCHANGED <<pred, handleVars, sent, sessionVars, decodeVars>>

\* read returns Ok(0) at the end of a finite reader: break, return Ok(())
\* (lines 20, 34).
CopyEof ==
    /\ IsSome(reader) /\ ~IsSome(ret)
    /\ Unwrap(reader).kind = "slice"
    /\ Available(Unwrap(reader)) = 0
    /\ read' = Some(Ok(0))
    /\ ret' = Some(Ok(Unit))
    /\ UNCHANGED <<reader, writer, pred, handleVars, sent, sessionVars,
                   decodeVars>>

\* read returns Err of kind Interrupted: continue (line 22).
CopyInterrupted ==
    /\ IsSome(reader) /\ ~IsSome(ret)
    /\ Unwrap(reader).faulty
    /\ read' = Some(Err(Interrupted))
    /\ UNCHANGED <<reader, writer, pred, ret, handleVars, sent, sessionVars,
                   decodeVars>>

\* read returns any other error: copy_until returns it (line 23).
CopyReadError ==
    /\ IsSome(reader) /\ ~IsSome(ret)
    /\ Unwrap(reader).faulty
    /\ read' = Some(Err(ReadError))
    /\ ret' = Some(Err(ReadError))
    /\ UNCHANGED <<reader, writer, pred, handleVars, sent, sessionVars,
                   decodeVars>>

\* copy_until(reader, writer, pred) has been called.
CopyInit ==
    /\ pc = [p \in Procs |-> "idle"]
    /\ demand = [p \in Procs |-> None]
    /\ session = [p \in Procs |-> None]
    /\ cur = [p \in Procs |-> 0]
    /\ sent = <<>>
    /\ calls = <<>>
    /\ action = None
    /\ last = None
    /\ steps = NoSteps
    /\ proto = None
    /\ request = None
    /\ decoded = None
    /\ reader \in {Some(r) : r \in Readers}
    /\ writer \in {Some(w) : w \in Writers}
    /\ pred \in {Some(p) : p \in Preds}
    /\ read = None
    /\ ret = None

CopyNext ==
    \/ \E n \in 1..DEFAULT_BUF_SIZE, fail \in BOOLEAN,
          k \in 0..DEFAULT_BUF_SIZE : CopyChunk(n, fail, k)
    \/ CopyEof
    \/ CopyInterrupted
    \/ CopyReadError

CopySpec == CopyInit /\ [][CopyNext]_vars

\* The loop of copy_until keeps running until it returns.
CopyFairSpec == CopySpec /\ WF_vars(CopyNext)

(***************************************************************************)
(* Properties of the decoders (DecodeSpec).                                *)
(***************************************************************************)

Envelope0 == Unwrap(proto)

\* The mandatory fields that Envelope0 lacks.
Missing ==
    {f \in {"session_id", "request_id", "name"} : ~IsSome(Envelope0[f])}

\* The error each decoder documents for a missing mandatory field.
RequestErrorFor(f) ==
    CASE f = "session_id" -> ParseRequestError(NoSessionId)
      [] f = "request_id" -> ParseRequestError(NoRequestId)
      [] f = "name"       -> ParseRequestError(NoActionName)

DemandErrorFor(f) ==
    CASE f = "session_id" -> MissingField("session id")
      [] f = "request_id" -> MissingField("request id")
      [] f = "name"       -> MissingField("action name")

\* C6: an envelope that lacks one of session_id, request_id, name is
\* rejected by both decoders with the error of the missing field
\* (NoSessionId / NoRequestId / NoActionName from Request::try_from,
\* MissingField naming the field from Demand::try_from), and whenever a
\* mandatory field is missing the result is an error and holds no value.
C6_MissingFieldRejected ==
    /\ IsSome(request) =>
          /\ Missing # {} =>
                /\ ~Unwrap(request).ok
                /\ DOMAIN Unwrap(request) = {"ok", "err"}
          /\ \A f \in Missing :
                Missing = {f} => Unwrap(request).err = RequestErrorFor(f)
    /\ IsSome(decoded) =>
          /\ Missing # {} =>
                /\ ~Unwrap(decoded).ok
                /\ DOMAIN Unwrap(decoded) = {"ok", "err"}
          /\ \A f \in Missing :
                Missing = {f} => Unwrap(decoded).err = DemandErrorFor(f)

\* Both decoders ran on an envelope that lacks the action name only.
C6_Witness ==
    /\ Missing = {"name"}
    /\ IsSome(request) /\ ~Unwrap(request).ok
    /\ IsSome(decoded) /\ ~Unwrap(decoded).ok

\* C7: an envelope with session_id, request_id and name present is accepted
\* by both decoders, with or without args; the session id, request id and
\* action name of the result are the envelope's, and the argument bytes are
\* carried over as they are (absent args stay absent).
C7_ValidEnvelopeDecoded ==
    Missing = {} =>
       /\ IsSome(request) =>
             /\ Unwrap(request).ok
             /\ Unwrap(request).val.id.session_id = Unwrap(Envelope0.session_id)
             /\ Unwrap(request).val.id.request_id = Unwrap(Envelope0.request_id)
             /\ Unwrap(request).val.action = Unwrap(Envelope0.name)
             /\ Unwrap(request).val.serialized_args = Envelope0.args
       /\ IsSome(decoded) =>
             /\ Unwrap(decoded).ok
             /\ Unwrap(decoded).val.header.session_id
                   = Unwrap(Envelope0.session_id)
             /\ Unwrap(decoded).val.header.request_id
                   = Unwrap(Envelope0.request_id)
             /\ Unwrap(decoded).val.action = Unwrap(Envelope0.name)
             /\ Unwrap(decoded).val.payload = Envelope0.args

\* Both decoders accepted an envelope that carries no args.
C7_Witness ==
    /\ Missing = {}
    /\ Envelope0.args = None
    /\ IsSome(request) /\ Unwrap(request).ok
    /\ IsSome(decoded) /\ Unwrap(decoded).ok

(***************************************************************************)
(* Properties of the sessions on their own (SessionSpec).                  *)
(***************************************************************************)

\* The entries of the transport's log submitted through `op` of session `by`.
Submitted(by, op) == SelectSeq(sent, LAMBDA e : e.by = by /\ e.op = op)

\* The entries are numbered 0, 1, ... in submission order and carry `header`.
Numbered(entries, header) ==
    \A k \in 1..Len(entries) :
        /\ entries[k].message.response_id = Some(k - 1)
        /\ entries[k].message.session_id  = Some(header.session_id)
        /\ entries[k].message.request_id  = Some(header.request_id)

\* C2, as stated: N reply calls on an Action session submit N envelopes,
\* numbered 0 .. N-1 in submission order, each with the bound header.
C2_EveryReplySubmits ==
    /\ Len(Submitted("Action", "reply")) = steps.ActionReply
    /\ Numbered(Submitted("Action", "reply"), Unwrap(action).header)

\* C2, amended: the reply calls that returned Ok, N of them, submitted N
\* envelopes, numbered 0 .. N-1 in submission order, each with the bound
\* header; a reply that returned an error submitted nothing.
C2_OkRepliesNumbered ==
    /\ Len(Submitted("Action", "reply")) = steps.ActionReplyOk
    /\ Numbered(Submitted("Action", "reply"), Unwrap(action).header)

\* Three reply calls in a row, all Ok, on a session bound to F:456 / 8.
C2_Witness ==
    /\ steps.ActionReply = 3
    /\ steps.ActionReplyOk = 3
    /\ TotalSteps = 3
    /\ Unwrap(action).header = [session_id |-> "F:456", request_id |-> 8]
    /\ Len(sent) = 3

\* C8: a reply on the Adhoc session submits nothing to the transport and
\* returns Ok(()), whatever was called before.
C8_AdhocReplyDrops ==
    [][steps'.AdhocReply # steps.AdhocReply =>
          /\ sent' = sent
          /\ Unwrap(last').result = Ok(Unit)]_vars

\* An Adhoc reply was made after an Adhoc send and an Action reply had
\* submitted envelopes.
C8_Witness ==
    /\ steps.AdhocReply > 0
    /\ IsSome(last)
    /\ Unwrap(last).by = "Adhoc" /\ Unwrap(last).op = "reply"
    /\ Len(Submitted("Adhoc", "send")) > 0
    /\ Len(Submitted("Action", "reply")) > 0

\* C9: every envelope submitted by send, on either session, is addressed to
\* the sink (session_id = sink id) and has neither request_id nor
\* response_id; two sends of the same response to the same sink submit the
\* same envelope, whichever session made them and whatever the Action
\* session's header and counter are.
C9_SendIsSinkAddressed ==
    LET sends == {i \in 1..Len(sent) : sent[i].op = "send"}
    IN  /\ \A i \in sends :
              /\ sent[i].message.session_id  = Some(sent[i].arg[1].id)
              /\ sent[i].message.request_id  = None
              /\ sent[i].message.response_id = None
        /\ \A i, j \in sends :
              sent[i].arg = sent[j].arg => sent[i].message = sent[j].message

\* The Action session sent to the sink after two replies (its counter is
\* 2), and the Adhoc session sent the same response to the same sink.
C9_Witness ==
    /\ Unwrap(action).next_response_id = 2
    /\ \E i, j \in 1..Len(sent) :
          /\ sent[i].op = "send" /\ sent[i].by = "Action"
          /\ sent[j].op = "send" /\ sent[j].by = "Adhoc"
          /\ sent[i].arg = sent[j].arg
          /\ i = 3

(***************************************************************************)
(* Properties of handle (Spec).                                            *)
(***************************************************************************)

\* The positions of the transport's log that handle call c submitted.
EntriesOf(c) == {i \in 1..Len(sent) : sent[i].call = c}

\* The positions of the status envelopes of handle call c.
StatusesOf(c) == {i \in EntriesOf(c) : sent[i].op = "status"}

\* The GrrStatus a status envelope carries in its args.
StatusPayload(message) == Unwrap(message.args)[1]

\* The handle calls whose dispatch has returned.
ReturnedCalls ==
    {c \in 1..Len(calls) :
        calls[c].outcome \in {"status_sent", "encode_failed"}}

\* C1: within one handle call, everything reply and send submitted comes
\* before the call's Status, and nothing of the call is submitted after its
\* Status: no entry of the transport's log follows a status of the same call.
C1_StatusIsLast ==
    \A i, j \in 1..Len(sent) :
        (i < j /\ sent[i].call = sent[j].call) => sent[i].op # "status"

\* A call submitted a reply and a send, and then its status.
C1_Witness ==
    /\ Len(sent) = 3
    /\ sent[1].op = "reply" /\ sent[2].op = "send" /\ sent[3].op = "status"
    /\ sent[1].call = sent[3].call /\ sent[2].call = sent[3].call

\* The status envelope at position i states the result it was built from.
StatusStatesResult(i) ==
    LET result  == sent[i].arg[1]
        payload == StatusPayload(sent[i].message)
    IN  IF result.ok
        THEN /\ payload.status = Some("OK")
             /\ payload.error_message = None
        ELSE /\ payload.status = Some("GENERIC_ERROR")
             /\ payload.error_message = Some(ErrorToString(result.err))

\* C3, as stated: every request whose dispatch returned has exactly one
\* status envelope, OK for Ok(()) and GENERIC_ERROR with the error's message
\* for Err(e).
C3_ExactlyOneStatus ==
    \A c \in ReturnedCalls :
        /\ Cardinality(StatusesOf(c)) = 1
        /\ \A i \in StatusesOf(c) : StatusStatesResult(i)

\* C3, amended: a request whose dispatch returned and whose Status encoded
\* has exactly one status envelope, OK for Ok(()) and GENERIC_ERROR with the
\* error's message for Err(e); a request whose Status failed to encode has
\* none, and a request still being dispatched has none.
C3_OneStatusWhenEncoded ==
    \A c \in 1..Len(calls) :
        /\ calls[c].outcome = "status_sent" => Cardinality(StatusesOf(c)) = 1
        /\ calls[c].outcome # "status_sent" => StatusesOf(c) = {}
        /\ \A i \in StatusesOf(c) : StatusStatesResult(i)

\* One request ended with an OK status and another with a GENERIC_ERROR
\* status for a Parse error.
C3_Witness ==
    /\ Len(calls) = 2
    /\ calls[1].outcome = "status_sent" /\ calls[2].outcome = "status_sent"
    /\ \E i \in StatusesOf(1) : sent[i].arg[1] = Ok(Unit)
    /\ \E i \in StatusesOf(2) : sent[i].arg[1] = Err("Parse")

\* C4: the status envelope of a request carries the request's session_id
\* and request_id and no response_id.
C4_StatusCarriesHeader ==
    \A c \in 1..Len(calls) : \A i \in StatusesOf(c) :
        /\ sent[i].message.session_id  = calls[c].message.session_id
        /\ sent[i].message.request_id  = calls[c].message.request_id
        /\ sent[i].message.response_id = None

\* The mandatory fields that an inbound envelope lacks.
MissingIn(message) ==
    {f \in {"session_id", "request_id", "name"} : ~IsSome(message[f])}

\* C5: for an inbound envelope that lacks session_id, request_id or name,
\* handle returns at once: the dispatcher is never given a session for the
\* call and the call submits nothing, neither a response nor a status.
C5_UndecodableDropped ==
    \A c \in 1..Len(calls) :
        MissingIn(calls[c].message) # {} =>
            /\ calls[c].outcome = "dropped"
            /\ EntriesOf(c) = {}
            /\ \A p \in Procs : cur[p] # c

\* An envelope without an action name was dropped after another request
\* had been answered.
C5_Witness ==
    /\ Len(calls) = 2
    /\ calls[1].outcome = "status_sent"
    /\ MissingIn(calls[2].message) = {"name"}
    /\ calls[2].outcome = "dropped"
    /\ Len(sent) > 0

\* C10: when the Status of a request fails to encode, no status envelope is
\* ever submitted for the request (no second status, no retry) and handle
\* has returned: the worker is idle or already runs a later call.
C10_EncodeFailureIsSilent ==
    \A c \in 1..Len(calls) :
        calls[c].outcome = "encode_failed" =>
            /\ StatusesOf(c) = {}
            /\ pc[calls[c].proc] = "idle" \/ cur[calls[c].proc] > c

\* A worker whose first call failed to encode its Status handled a second
\* request and submitted that request's status.
C10_Witness ==
    /\ Len(calls) = 2
    /\ calls[1].proc = calls[2].proc
    /\ calls[1].outcome = "encode_failed"
    /\ calls[2].outcome = "status_sent"
    /\ StatusesOf(2) # {}

(***************************************************************************)
(* Agreement of the two decoders (DecodeSpec).                             *)
(***************************************************************************)

\* The first mandatory field a set of missing fields reports, in the order
\* session id, request id, action name.
FirstOf(missing) ==
    IF "session_id" \in missing THEN "session_id"
    ELSE IF "request_id" \in missing THEN "request_id"
    ELSE "name"

\* C20: Request::try_from and Demand::try_from accept exactly the same
\* envelopes, and on an envelope that lacks mandatory fields each reports
\* the first missing one in the order session id, request id, action name.
C20_DecodersAgree ==
    (IsSome(request) /\ IsSome(decoded)) =>
        /\ Unwrap(request).ok = Unwrap(decoded).ok
        /\ Unwrap(request).ok = (Missing = {})
        /\ Missing # {} =>
              /\ Unwrap(request).err = RequestErrorFor(FirstOf(Missing))
              /\ Unwrap(decoded).err = DemandErrorFor(FirstOf(Missing))

\* Both decoders ran on an envelope that lacks the request id and the
\* action name, and on one that lacks all three.
C20_Witness ==
    /\ IsSome(request) /\ IsSome(decoded)
    /\ Missing = {"request_id", "name"}
    /\ Unwrap(request).err = ParseRequestError(NoRequestId)
    /\ Unwrap(decoded).err = MissingField("request id")

(***************************************************************************)
(* What the transport receives for one request (Spec).                     *)
(***************************************************************************)

\* The header of the envelope handle call c was given.
HeaderOf(c) ==
    [session_id |-> Unwrap(calls[c].message.session_id),
     request_id |-> Unwrap(calls[c].message.request_id)]

\* The entries handle call c submitted through `op`, in submission order.
SubmittedBy(c, op) == SelectSeq(sent, LAMBDA e : e.call = c /\ e.op = op)

\* Every entry of call c is a response (a reply or a send).
OnlyResponses(c) ==
    \A i \in EntriesOf(c) : sent[i].op \in {"reply", "send"}

\* The entries of call c are responses followed by one status envelope that
\* states the dispatch result: OK, or GENERIC_ERROR with the error's message.
ResponsesThenStatus(c) ==
    \E s \in EntriesOf(c) :
        /\ sent[s].op = "status"
        /\ StatusStatesResult(s)
        /\ \A i \in EntriesOf(c) \ {s} :
              i < s /\ sent[i].op \in {"reply", "send"}

\* C12, as stated: a dispatched request ends with responses followed by its
\* status, or, when the Status fails to encode, with no envelope at all.
C12_StatusOrSilence ==
    \A c \in ReturnedCalls :
        IF calls[c].outcome = "status_sent"
        THEN ResponsesThenStatus(c)
        ELSE EntriesOf(c) = {}

\* C12, amended: a dispatched request ends with responses followed by its
\* status (OK, or GENERIC_ERROR with a message); when the Status fails to
\* encode no status is submitted and the responses of the dispatch, if any,
\* stay without a following status.
C12_StatusOrResponsesOnly ==
    \A c \in ReturnedCalls :
        IF calls[c].outcome = "status_sent"
        THEN ResponsesThenStatus(c)
        ELSE OnlyResponses(c)

\* One request ended with a response and its status, another with a
\* response and a Status that failed to encode.
C12_Witness ==
    \E c, d \in ReturnedCalls :
        /\ calls[c].outcome = "status_sent"
        /\ Cardinality(EntriesOf(c)) = 2
        /\ calls[d].outcome = "encode_failed"
        /\ EntriesOf(d) # {}

\* C13: for any interleaving of concurrent handle calls, the replies of each
\* request carry that request's header and the response ids 0, 1, 2, ... in
\* submission order, whatever the other requests have replied.
C13_OwnCounterPerRequest ==
    \A c \in 1..Len(calls) :
        calls[c].outcome # "dropped" =>
            Numbered(SubmittedBy(c, "reply"), HeaderOf(c))

\* Two requests with different headers are in dispatch at once and each has
\* replied once: the second request's first reply follows the first
\* request's and still has response id 0.
C13_Witness ==
    /\ \A p \in Procs : pc[p] = "dispatch"
    /\ Len(sent) = 2
    /\ sent[1].op = "reply" /\ sent[2].op = "reply"
    /\ sent[1].call # sent[2].call
    /\ HeaderOf(sent[1].call) # HeaderOf(sent[2].call)
    /\ sent[2].message.response_id = Some(0)

\* C16: every envelope reply or send submitted has type MESSAGE and every
\* status envelope has type STATUS.
C16_TypeTags ==
    \A i \in 1..Len(sent) :
        /\ sent[i].op \in {"reply", "send"} =>
              sent[i].message.type = Some("MESSAGE")
        /\ sent[i].op = "status" => sent[i].message.type = Some("STATUS")

\* A sink-bound response and a status are both in the transport's log.
C16_Witness ==
    \E i, j \in 1..Len(sent) :
        /\ sent[i].op = "send" /\ sent[i].message.type = Some("MESSAGE")
        /\ sent[j].op = "status" /\ sent[j].message.type = Some("STATUS")

(***************************************************************************)
(* The reply counter of an Action session (SessionSpec).                   *)
(***************************************************************************)

\* C17: a send on an Action session leaves its counter and header as they
\* were, whether it succeeds or fails; so with sends interleaved among the
\* replies, the k-th successful reply still carries response id k - 1.
C17_SendKeepsCounter ==
    [][/\ steps'.ActionSend # steps.ActionSend => action' = action
       /\ steps'.ActionReplyOk # steps.ActionReplyOk =>
             /\ Len(sent') = Len(sent) + 1
             /\ sent'[Len(sent')].op = "reply"
             /\ sent'[Len(sent')].message.response_id =
                   Some(steps'.ActionReplyOk - 1)]_vars

\* A reply, a send that succeeded, a send that failed, and then the second
\* successful reply, which carries response id 1.
C17_Witness ==
    /\ steps.ActionSend = 2
    /\ steps.ActionReplyOk = 2
    /\ Len(sent) = 3
    /\ sent[2].op = "send" /\ sent[2].by = "Action"
    /\ sent[3].op = "reply"
    /\ sent[3].message.response_id = Some(1)
    /\ Unwrap(action).next_response_id = 2

\* C19: a reply whose response fails to encode submits nothing, returns the
\* error and leaves the counter as it was; so the response ids of the
\* submitted replies are 0 .. k-1 without gap or repeat, and the counter
\* always equals the number of replies submitted.
C19_FailedReplyKeepsCounter ==
    /\ [][(/\ steps'.ActionReply # steps.ActionReply
           /\ steps'.ActionReplyOk = steps.ActionReplyOk) =>
              /\ sent' = sent
              /\ action' = action
              /\ Unwrap(last').result = Err(EncodeError)]_vars
    /\ [](IsSome(action) =>
              /\ Unwrap(action).next_response_id =
                    Len(Submitted("Action", "reply"))
              /\ \A k \in 1..Len(Submitted("Action", "reply")) :
                    Submitted("Action", "reply")[k].message.response_id =
                        Some(k - 1))

\* A reply has just failed to encode after one reply went out: one envelope
\* is in the log and the counter is 1.
C19_Witness ==
    /\ IsSome(last)
    /\ Unwrap(last).by = "Action" /\ Unwrap(last).op = "reply"
    /\ ~Unwrap(last).result.ok
    /\ steps.ActionReply = 2 /\ steps.ActionReplyOk = 1
    /\ Len(Submitted("Action", "reply")) = 1
    /\ Unwrap(action).next_response_id = 1

(***************************************************************************)
(* Requests run by execute (ExecuteSpec).                                  *)
(***************************************************************************)

\* The most recent handle call reached dispatch, and what is known of it.
LastExecuted == IsSome(last) /\ Unwrap(last).op = "execute"
Executed0    == Unwrap(last)

\* The session calls the handler of the last request made: all of them, or,
\* for a handler that propagates errors, those up to the first that failed.
RanCalls ==
    LET ops    == Executed0.handler.ops
        failed == {i \in 1..Len(ops) : ~ops[i].enc}
    IN  IF Executed0.handler.propagate /\ failed # {}
        THEN SubSeq(ops, 1, CHOOSE i \in failed : \A j \in failed : i <= j)
        ELSE ops

\* A reply or a send of the last request failed to encode its response.
ResponseEncodeFailed ==
    /\ LastExecuted
    /\ Executed0.invoked
    /\ \E i \in 1..Len(RanCalls) : ~RanCalls[i].enc

\* The responses handle call c submitted, in submission order.
ResponsesOf(c) ==
    SelectSeq(sent, LAMBDA e : e.call = c /\ e.op \in {"reply", "send"})

\* C11, as stated: when a reply or a send fails to encode its response
\* during a dispatch, no status envelope is sent for that request.
C11_ResponseEncodeErrorSilencesStatus ==
    ResponseEncodeFailed => StatusesOf(Executed0.call) = {}

\* C11, amended: a reply or send that fails to encode submits nothing and
\* returns the error to the action; the request still ends with its status,
\* built from what the action returns (GENERIC_ERROR with the encode error's
\* message when the action propagates the error), unless the Status itself
\* fails to encode.
C11_ResponseEncodeErrorIsReported ==
    ResponseEncodeFailed =>
        LET c == Executed0.call
        IN  /\ Len(ResponsesOf(c)) =
                  Cardinality({i \in 1..Len(RanCalls) : RanCalls[i].enc})
            /\ Executed0.handler.propagate =>
                  Executed0.result = Err(EncodeError)
            /\ IF Executed0.enc
               THEN /\ ResponsesThenStatus(c)
                    /\ Cardinality(StatusesOf(c)) = 1
                    /\ \A s \in StatusesOf(c) :
                          sent[s].arg = <<Executed0.result>>
               ELSE /\ OnlyResponses(c)
                    /\ calls[c].outcome = "encode_failed"

\* The first request replied once, failed to encode its second reply and
\* ended with a GENERIC_ERROR status carrying the encode error's message;
\* the next request was handled after it and ended with its own status.
C11_Witness ==
    /\ Len(calls) = 2
    /\ Len(ResponsesOf(1)) = 1
    /\ \E s \in StatusesOf(1) :
          /\ sent[s].arg = <<Err(EncodeError)>>
          /\ StatusPayload(sent[s].message).error_message =
                Some(ErrorToString(EncodeError))
    /\ ResponseEncodeFailed
    /\ Executed0.call = 2
    /\ Executed0.handler.propagate
    /\ calls[2].outcome = "status_sent"

\* What execute did with a payload whose bytes do not decode: the handler
\* was not invoked, the session is as Action::new made it, the parse error
\* is the dispatch result and no response was submitted.
ParseFailureSkipsHandler ==
    LET c == Executed0.call
    IN  /\ ~Executed0.invoked
        /\ Executed0.session = ActionNew(HeaderOf(c))
        /\ Executed0.result = Err("Parse")
        /\ ResponsesOf(c) = <<>>

\* What execute did with an absent payload: the handler was invoked with
\* the request built from the default message.
AbsentPayloadGivesDefault ==
    /\ Executed0.invoked
    /\ Executed0.args = Some(FromProto(DefaultProto))

\* C18, as stated: execute parses before it calls the handler; on bytes
\* that fail to decode the handler is never invoked, the session is not
\* touched and the request ends with zero responses and a GENERIC_ERROR
\* status; on an absent payload the handler gets the default value.
C18_ParseFailureEndsWithStatus ==
    LastExecuted =>
        /\ Executed0.message.args = Some(MalformedArgs) =>
              /\ ParseFailureSkipsHandler
              /\ \E s \in StatusesOf(Executed0.call) :
                    StatusPayload(sent[s].message).status =
                        Some("GENERIC_ERROR")
        /\ Executed0.message.args = None => AbsentPayloadGivesDefault

\* C18, amended: as stated, except that the GENERIC_ERROR status, which
\* carries the parse error's message, is the request's only envelope when
\* the Status encodes, and the request has no envelope when it does not.
C18_ParseBeforeHandler ==
    LastExecuted =>
        /\ Executed0.message.args = Some(MalformedArgs) =>
              /\ ParseFailureSkipsHandler
              /\ IF Executed0.enc
                 THEN /\ Cardinality(EntriesOf(Executed0.call)) = 1
                      /\ \A s \in EntriesOf(Executed0.call) :
                            /\ sent[s].op = "status"
                            /\ StatusPayload(sent[s].message) =
                                  [status |-> Some("GENERIC_ERROR"),
                                   error_message |->
                                       Some(ErrorToString("Parse"))]
                 ELSE EntriesOf(Executed0.call) = {}
        /\ Executed0.message.args = None => AbsentPayloadGivesDefault
        /\ Executed0.message.args = Some(ValidArgs) =>
              /\ Executed0.invoked
              /\ Executed0.args = Some(FromProto({<<1, 1>>}))

\* A request with undecodable argument bytes was given a handler that
\* replies twice: nothing but the GENERIC_ERROR status was submitted; the
\* request before it had no payload and its handler replied.
C18_Witness ==
    /\ LastExecuted
    /\ Executed0.call = 2
    /\ Executed0.message.args = Some(MalformedArgs)
    /\ Len(Executed0.handler.ops) = 2
    /\ Executed0.enc
    /\ ~Executed0.invoked
    /\ Cardinality(EntriesOf(2)) = 1
    /\ calls[1].message.args = None
    /\ Len(ResponsesOf(1)) = 1

(***************************************************************************)
(* Properties of copy_until (CopyFairSpec).                                *)
(***************************************************************************)

Reader0 == Unwrap(reader)
Writer0 == Unwrap(writer)
Pred0   == Unwrap(pred)

\* The bytes the reader has produced so far.
Produced ==
    IF Reader0.kind = "null" THEN [i \in 1..Reader0.pos |-> 0]
    ELSE SubSeq(Reader0.data, 1, Reader0.pos)

IsPrefix(a, b) == Len(a) <= Len(b) /\ SubSeq(b, 1, Len(a)) = a

\* copy_until has returned, and not with an error of the reader.
ReturnedWithoutReadError == IsSome(ret) /\ ret # Some(Err(ReadError))

\* copy_until has returned, with an error of neither reader nor writer.
ReturnedWithoutError ==
    ReturnedWithoutReadError /\ ret # Some(Err(WriteError))

\* In every run the bytes written so far are a prefix of the bytes the
\* reader has produced.
WrittenIsPrefix == IsSome(reader) => IsPrefix(Writer0.buf, Produced)

StoppedAtFirstChunk ==
    /\ Pred(Pred0, Reader0, Writer0)
    /\ IsSome(read) /\ Unwrap(read).ok
    /\ Len(Writer0.buf) - Unwrap(read).val <= Pred0.limit

====
